---- MODULE Spec2Model ----
(***************************************************************************)
(* withRateLimit (rate-limiter.ts): an asynchronous retry loop that        *)
(* re-invokes an operation after a rate-limit rejection, with exponential  *)
(* backoff floored by the server's retryAfter.                             *)
(*                                                                         *)
(* Every invocation owns its locals (maxRetries, initialDelay, attempt,    *)
(* lastError); the variables below are functions from the set of running   *)
(* invocations to those locals.  The operation fn is the environment: each *)
(* call settles with any modelled result or any modelled failure.          *)
(***************************************************************************)
EXTENDS Integers, Sequences, FiniteSets, TLC

VARIABLES
    maxRetries,    \* [invocation -> Int]   parameter maxRetries
    initialDelay,  \* [invocation -> Nat]   parameter initialDelay (ms)
    attempt,       \* [invocation -> Int]   loop variable of the for statement
    lastError,     \* [invocation -> value] local lastError
    pc,            \* [invocation -> "loop" | "call" | "sleep" | "return" | "throw"]
    timer,         \* [invocation -> Nat]   delay of the pending setTimeout, if pc is "sleep"
    settled,       \* [invocation -> value] value the returned promise settled with
    exitLine,      \* [invocation -> Nat]   source line of the return/throw taken (0: none)
    calls,         \* [invocation -> Nat]   number of times fn was invoked
    outcomes,      \* [invocation -> Seq]   how each finished call of fn settled
    waits,         \* [invocation -> Seq]   delays (ms) of the timers that elapsed
    logs,          \* [invocation -> Seq]   console.log notifications emitted
    scriptName,    \* which example script runs main() ("none": withRateLimit on its own)
    envNETWORK,    \* process.env.NETWORK
    main,          \* the position and the locals of main()
    apiLog,        \* the requests made to the DeFindex API / the router SDK, in order
    printed        \* the explorer network of the printed link ("": nothing printed)

\* the state of the withRateLimit activations
rateLimitVars == <<maxRetries, initialDelay, attempt, lastError, pc, timer, settled,
                   exitLine, calls, outcomes, waits, logs>>

\* the state of the script
scriptVars == <<scriptName, envNETWORK, main, apiLog, printed>>

vars == <<maxRetries, initialDelay, attempt, lastError, pc, timer, settled,
          exitLine, calls, outcomes, waits, logs,
          scriptName, envNETWORK, main, apiLog, printed>>

-----------------------------------------------------------------------------
(* Bounds of the model *)

\* largest maxRetries argument explored
MaxRetriesBound == 2

-----------------------------------------------------------------------------
(* JavaScript values, tagged with their type *)

Undefined == [t |-> "undefined"]
Null == [t |-> "null"]
Num(n) == [t |-> "number", n |-> n]
Str(s) == [t |-> "string", s |-> s]

\* An error object; id tells apart the objects created by different calls of fn.
ErrorObject(id, statusCode, error, retryAfter) ==
    [t |-> "object", id |-> id, statusCode |-> statusCode, error |-> error,
     retryAfter |-> retryAfter]

\* statusCode values the API client may put on a failure
StatusCodes == {Undefined, Num(429), Num(400)}
\* error values the API client may put on a failure
ErrorMarkers == {Undefined, Str("Too Many Requests")}
\* retryAfter values (seconds) the API client may put on a failure
RetryAfters == {Undefined, Null, Num(0), Num(2), Num(5)}

\* What call number id of fn may reject with.
Failures(id) ==
    { ErrorObject(id, sc, er, ra) : sc \in StatusCodes, er \in ErrorMarkers,
                                    ra \in RetryAfters }
    \cup { ErrorObject(id, Str("429"), Undefined, Undefined), Null }

\* What fn may resolve with.
Results == {Str("txHash"), Undefined}

\* maxRetries arguments explored (the parameter is a plain number)
MaxRetriesInputs == (0 - 1) .. MaxRetriesBound
\* initialDelay arguments explored (ms)
InitialDelayInputs == {100, 1000, 3000}

-----------------------------------------------------------------------------
(* Expressions of the catch block *)

\* error?.name : undefined unless error is an object
Prop(e, name) == IF e.t = "object" THEN e[name] ELSE Undefined

\* JavaScript truthiness, as used by ||
Truthy(v) ==
    CASE v.t = "undefined" -> FALSE
      [] v.t = "null" -> FALSE
      [] v.t = "number" -> v.n # 0
      [] v.t = "string" -> v.s # ""
      [] OTHER -> TRUE

RECURSIVE Pow2(_)
\* Math.pow(2, n) for n >= 0
Pow2(n) == IF n <= 0 THEN 1 ELSE 2 * Pow2(n - 1)

\* Math.max(a, b)
MathMax(a, b) == IF a >= b THEN a ELSE b

\* slip: any numeric status code is taken for a rate-limit rejection
IsRateLimitError_AnyStatus(e) ==
    \/ Prop(e, "statusCode").t = "number"
    \/ Prop(e, "error") = Str("Too Many Requests")

\* slip: only the status code is inspected
IsRateLimitError_StatusOnly(e) == Prop(e, "statusCode") = Num(429)

\* error?.statusCode === 429 || error?.error === 'Too Many Requests'
IsRateLimitError(e) ==
    \/ Prop(e, "statusCode") = Num(429)
    \/ Prop(e, "error") = Str("Too Many Requests")

\* slip: the default is 0 seconds instead of 1
RetryAfterOf_DefaultZero(e) ==
    LET r == Prop(e, "retryAfter") IN IF Truthy(r) THEN r ELSE Num(0)

\* const retryAfter = error?.retryAfter || 1
RetryAfterOf(e) ==
    LET r == Prop(e, "retryAfter") IN IF Truthy(r) THEN r ELSE Num(1)

\* slip: the delay does not grow with the attempt
DelayMs_NoBackoff(e, delay0, i) == MathMax(RetryAfterOf(e).n * 1000, delay0)

\* slip: the server's retryAfter is left out of the delay
DelayMs_NoServerFloor(e, delay0, i) == delay0 * Pow2(i)

\* const delayMs = Math.max(retryAfter * 1000, initialDelay * Math.pow(2, attempt))
DelayMs(e, delay0, i) ==
    MathMax(RetryAfterOf(e).n * 1000, delay0 * Pow2(i))

\* slip: a do-while loop, the body runs once before the test
LoopCondition_AtLeastOnce(i, max) == i = 0 \/ i <= max

\* slip: attempt < maxRetries in the for statement
LoopCondition_Strict(i, max) == i < max

\* for (...; attempt <= maxRetries; ...)
LoopCondition(i, max) == i <= max

\* slip: attempt <= maxRetries in the if statement
RetriesRemain_OffByOne(i, max) == i <= max

\* if (attempt < maxRetries)
RetriesRemain(i, max) == i < max

\* slip: the attempt index is logged as the retry number
Notification_ZeroBased(delayMs, i, max) ==
    [delayMs |-> delayMs, retry |-> i, maxRetries |-> max]

\* the text of the console.log before a wait, as its three interpolated values
Notification(delayMs, i, max) ==
    [delayMs |-> delayMs, retry |-> i + 1, maxRetries |-> max]

-----------------------------------------------------------------------------
(* The state after `let lastError; for (let attempt = 0; ...` *)

InitOn(I) ==
    /\ maxRetries \in [I -> MaxRetriesInputs]
    /\ initialDelay \in [I -> InitialDelayInputs]
    /\ attempt = [p \in I |-> 0]
    /\ lastError = [p \in I |-> Undefined]
    /\ pc = [p \in I |-> "loop"]
    /\ timer = [p \in I |-> 0]
    /\ settled = [p \in I |-> Undefined]
    /\ exitLine = [p \in I |-> 0]
    /\ calls = [p \in I |-> 0]
    /\ outcomes = [p \in I |-> <<>>]
    /\ waits = [p \in I |-> <<>>]
    /\ logs = [p \in I |-> <<>>]

\* no script: withRateLimit is called directly
NoScript ==
    /\ scriptName = "none"
    /\ envNETWORK = Undefined
    /\ main = [step |-> "none"]
    /\ apiLog = <<>>
    /\ printed = ""

Init == InitOn({1}) /\ NoScript

Invocations == DOMAIN pc

-----------------------------------------------------------------------------
(* Steps of one invocation *)

\* slip: the timer is not awaited, the next iteration starts while it runs
CallFn_DuringSleep(p) ==
    /\ pc[p] \in {"loop", "sleep"}
    /\ LoopCondition(attempt[p], maxRetries[p])
    /\ calls' = [calls EXCEPT ![p] = @ + 1]
    /\ pc' = [pc EXCEPT ![p] = "call"]
    /\ UNCHANGED <<maxRetries, initialDelay, attempt, lastError, timer, settled,
                   exitLine, outcomes, waits, logs>>

\* slip: the wait is a blocking sleep, nothing else runs while one is pending
CallFn_BlockedBySleep(p) ==
    /\ pc[p] = "loop"
    /\ \A q \in DOMAIN pc : pc[q] # "sleep"
    /\ LoopCondition(attempt[p], maxRetries[p])
    /\ calls' = [calls EXCEPT ![p] = @ + 1]
    /\ pc' = [pc EXCEPT ![p] = "call"]
    /\ UNCHANGED <<maxRetries, initialDelay, attempt, lastError, timer, settled,
                   exitLine, outcomes, waits, logs>>

\* loop test true: `return await fn()` invokes fn and suspends on its promise
CallFn(p) ==
    /\ pc[p] = "loop"
    /\ LoopCondition(attempt[p], maxRetries[p])
    /\ calls' = [calls EXCEPT ![p] = @ + 1]
    /\ pc' = [pc EXCEPT ![p] = "call"]
    /\ UNCHANGED <<maxRetries, initialDelay, attempt, lastError, timer, settled,
                   exitLine, outcomes, waits, logs>>

\* loop test false: `throw lastError` after the loop
ThrowAfterLoop(p) ==
    /\ pc[p] = "loop"
    /\ ~LoopCondition(attempt[p], maxRetries[p])
    /\ settled' = [settled EXCEPT ![p] = lastError[p]]
    /\ exitLine' = [exitLine EXCEPT ![p] = 40]
    /\ pc' = [pc EXCEPT ![p] = "throw"]
    /\ UNCHANGED <<maxRetries, initialDelay, attempt, lastError, timer, calls,
                   outcomes, waits, logs>>

\* slip: `await fn()` without return, the loop goes on to its next iteration
FnResolves_NoReturn(p, v) ==
    /\ pc[p] = "call"
    /\ outcomes' = [outcomes EXCEPT ![p] = Append(@, [ok |-> TRUE, value |-> v])]
    /\ attempt' = [attempt EXCEPT ![p] = @ + 1]
    /\ pc' = [pc EXCEPT ![p] = "loop"]
    /\ UNCHANGED <<maxRetries, initialDelay, lastError, timer, settled, exitLine,
                   calls, waits, logs>>

\* fn's promise fulfils with v: `return await fn()` returns it
FnResolves(p, v) ==
    /\ pc[p] = "call"
    /\ outcomes' = [outcomes EXCEPT ![p] = Append(@, [ok |-> TRUE, value |-> v])]
    /\ settled' = [settled EXCEPT ![p] = v]
    /\ exitLine' = [exitLine EXCEPT ![p] = 19]
    /\ pc' = [pc EXCEPT ![p] = "return"]
    /\ UNCHANGED <<maxRetries, initialDelay, attempt, lastError, timer, calls,
                   waits, logs>>

\* lines 29-31: notify, start the timer, suspend until it fires
WaitThenContinue(p, e) ==
    LET delayMs == DelayMs(e, initialDelay[p], attempt[p]) IN
    /\ logs' = [logs EXCEPT ![p] =
                   Append(@, Notification(delayMs, attempt[p], maxRetries[p]))]
    /\ timer' = [timer EXCEPT ![p] = delayMs]
    /\ pc' = [pc EXCEPT ![p] = "sleep"]
    /\ UNCHANGED <<settled, exitLine>>

\* slip: the first failure of the invocation is thrown instead of this one
Rethrow_FirstFailure(p, e) ==
    /\ settled' = [settled EXCEPT ![p] =
                      IF outcomes[p] = <<>> THEN e ELSE outcomes[p][1].value]
    /\ exitLine' = [exitLine EXCEPT ![p] = 36]
    /\ pc' = [pc EXCEPT ![p] = "throw"]
    /\ UNCHANGED <<logs, timer>>

\* slip: a new error is thrown that keeps only the error text
Rethrow_Wrapped(p, e) ==
    /\ settled' = [settled EXCEPT ![p] =
                      ErrorObject(calls[p], Undefined, Prop(e, "error"), Undefined)]
    /\ exitLine' = [exitLine EXCEPT ![p] = 36]
    /\ pc' = [pc EXCEPT ![p] = "throw"]
    /\ UNCHANGED <<logs, timer>>

\* slip: the failure is dropped and the invocation returns undefined
Rethrow_ReturnsUndefined(p, e) ==
    /\ settled' = [settled EXCEPT ![p] = Undefined]
    /\ exitLine' = [exitLine EXCEPT ![p] = 36]
    /\ pc' = [pc EXCEPT ![p] = "return"]
    /\ UNCHANGED <<logs, timer>>

\* line 36: `throw error`
Rethrow(p, e) ==
    /\ settled' = [settled EXCEPT ![p] = e]
    /\ exitLine' = [exitLine EXCEPT ![p] = 36]
    /\ pc' = [pc EXCEPT ![p] = "throw"]
    /\ UNCHANGED <<logs, timer>>

\* fn's promise rejects with e: the catch block
FnRejects(p, e) ==
    /\ pc[p] = "call"
    /\ outcomes' = [outcomes EXCEPT ![p] = Append(@, [ok |-> FALSE, value |-> e])]
    /\ lastError' = [lastError EXCEPT ![p] = e]
    /\ IF IsRateLimitError(e) /\ RetriesRemain(attempt[p], maxRetries[p])
       THEN WaitThenContinue(p, e)
       ELSE Rethrow(p, e)
    /\ UNCHANGED <<maxRetries, initialDelay, attempt, calls, waits>>

\* slip: the attempt counter is one module-level variable, so the increment
\* is seen by every running invocation
TimerFires_SharedAttempt(p) ==
    /\ pc[p] = "sleep"
    /\ waits' = [waits EXCEPT ![p] = Append(@, timer[p])]
    /\ timer' = [timer EXCEPT ![p] = 0]
    /\ attempt' = [q \in DOMAIN attempt |-> attempt[q] + 1]
    /\ pc' = [pc EXCEPT ![p] = "loop"]
    /\ UNCHANGED <<maxRetries, initialDelay, lastError, settled, exitLine, calls,
                   outcomes, logs>>

\* slip: `continue` in a loop that does not advance attempt
TimerFires_NoIncrement(p) ==
    /\ pc[p] = "sleep"
    /\ waits' = [waits EXCEPT ![p] = Append(@, timer[p])]
    /\ timer' = [timer EXCEPT ![p] = 0]
    /\ pc' = [pc EXCEPT ![p] = "loop"]
    /\ UNCHANGED <<maxRetries, initialDelay, attempt, lastError, settled, exitLine,
                   calls, outcomes, logs>>

\* the setTimeout fires: `continue` runs attempt++ and re-tests the loop
TimerFires(p) ==
    /\ pc[p] = "sleep"
    /\ waits' = [waits EXCEPT ![p] = Append(@, timer[p])]
    /\ timer' = [timer EXCEPT ![p] = 0]
    /\ attempt' = [attempt EXCEPT ![p] = @ + 1]
    /\ pc' = [pc EXCEPT ![p] = "loop"]
    /\ UNCHANGED <<maxRetries, initialDelay, lastError, settled, exitLine, calls,
                   outcomes, logs>>

Next ==
    \/ \E p \in Invocations : CallFn(p) /\ UNCHANGED scriptVars
    \/ \E p \in Invocations : ThrowAfterLoop(p) /\ UNCHANGED scriptVars
    \/ \E p \in Invocations : \E v \in Results :
          FnResolves(p, v) /\ UNCHANGED scriptVars
    \/ \E p \in Invocations : \E e \in Failures(calls[p]) :
          FnRejects(p, e) /\ UNCHANGED scriptVars
    \/ \E p \in Invocations : TimerFires(p) /\ UNCHANGED scriptVars

Spec == Init /\ [][Next]_vars

\* Every call of fn settles and every timer fires (the premises of the
\* termination claim); the loop's own steps run as soon as they can.
FairSpec == Spec /\ WF_vars(Next)

-----------------------------------------------------------------------------
(* Two invocations in flight at once, each with an operation of its own *)

\* The operations of the two callers: what each may resolve and reject with
\* (rejections as templates, the id is set by the call that raises them).
OperationOf(p) ==
    IF p = 1
    THEN [resolves |-> {Str("txHash")},
          rejects |-> {ErrorObject(0, Num(429), Undefined, Undefined)}]
    ELSE [resolves |-> {Undefined},
          rejects |-> {ErrorObject(0, Undefined, Str("Too Many Requests"), Num(5)),
                       ErrorObject(0, Num(400), Undefined, Undefined)}]

\* the error object call number id raises from template e
Raised(e, id) == [e EXCEPT !.id = id]

InitConc == InitOn({1, 2}) /\ NoScript

NextConc ==
    \/ \E p \in Invocations : CallFn(p) /\ UNCHANGED scriptVars
    \/ \E p \in Invocations : ThrowAfterLoop(p) /\ UNCHANGED scriptVars
    \/ \E p \in Invocations : \E v \in OperationOf(p).resolves :
          FnResolves(p, v) /\ UNCHANGED scriptVars
    \/ \E p \in Invocations : \E e \in OperationOf(p).rejects :
          FnRejects(p, Raised(e, calls[p])) /\ UNCHANGED scriptVars
    \/ \E p \in Invocations : TimerFires(p) /\ UNCHANGED scriptVars

\* the steps of invocation p among those of NextConc
StepOf(p) ==
    /\ \/ CallFn(p)
       \/ ThrowAfterLoop(p)
       \/ \E v \in OperationOf(p).resolves : FnResolves(p, v)
       \/ \E e \in OperationOf(p).rejects : FnRejects(p, Raised(e, calls[p]))
       \/ TimerFires(p)
    /\ UNCHANGED scriptVars

SpecConc == InitConc /\ [][NextConc]_vars

-----------------------------------------------------------------------------
(* The fee-bump example scripts: module-level constants *)

\* slip: three retries by default
DefaultMaxRetries_Three == 2 + 1

\* default of the parameter maxRetries
DefaultMaxRetries == 5
\* default of the parameter initialDelay (ms)
DefaultInitialDelay == 1000
\* const networkMultiplier = 10
NetworkMultiplier == 10

\* deposit-fee-bump.ts and withdraw-fee-bump.ts, each in its current form and
\* in its dynamic-fee form
FeeBumpScripts == {"deposit", "depositDynamic", "withdraw", "withdrawDynamic"}

\* a string value, as its characters
Text(cs) == [t |-> "string", chars |-> cs]

MainnetLiteral == <<"m", "a", "i", "n", "n", "e", "t">>
TestnetLiteral == <<"t", "e", "s", "t", "n", "e", "t">>

UpperCaseLetters ==
    <<"A", "B", "C", "D", "E", "F", "G", "H", "I", "J", "K", "L", "M",
      "N", "O", "P", "Q", "R", "S", "T", "U", "V", "W", "X", "Y", "Z">>
LowerCaseLetters ==
    <<"a", "b", "c", "d", "e", "f", "g", "h", "i", "j", "k", "l", "m",
      "n", "o", "p", "q", "r", "s", "t", "u", "v", "w", "x", "y", "z">>

\* String.prototype.toLowerCase, character by character
ToLowerCase(cs) ==
    [i \in 1 .. Len(cs) |->
        IF \E j \in 1 .. Len(UpperCaseLetters) : UpperCaseLetters[j] = cs[i]
        THEN LowerCaseLetters[CHOOSE j \in 1 .. Len(UpperCaseLetters) :
                                 UpperCaseLetters[j] = cs[i]]
        ELSE cs[i]]

\* values of process.env.NETWORK explored
EnvNetworkInputs ==
    {Undefined, Text(<<>>), Text(MainnetLiteral), Text(TestnetLiteral),
     Text(<<"M", "A", "I", "N", "N", "E", "T">>),
     Text(<<"M", "a", "i", "n", "n", "e", "t">>),
     Text(<<"p", "u", "b", "l", "i", "c">>)}

\* slip: the comparison is made without lower-casing
network_CaseSensitive(env) ==
    IF env.t = "string" /\ env.chars # <<>> THEN env.chars ELSE TestnetLiteral

\* const network = process.env.NETWORK?.toLowerCase() || "testnet"
network(env) ==
    LET lowered == IF env.t = "string" THEN Text(ToLowerCase(env.chars)) ELSE Undefined
    IN IF lowered.t = "string" /\ lowered.chars # <<>>
       THEN lowered.chars
       ELSE TestnetLiteral

\* const isMainnet = network === "mainnet"
isMainnet(env) == network(env) = MainnetLiteral

\* the script reads NETWORK; the dynamic-fee deposit script names TESTNET
ReadsNetwork(script) == script # "depositDynamic"

\* slip: the passphrase stays TESTNET whatever the selection
stellarNetwork_AlwaysTestnet(script, env) == "Test SDF Network ; September 2015"

\* const stellarNetwork = isMainnet ? Networks.PUBLIC : Networks.TESTNET
stellarNetwork(script, env) ==
    IF ReadsNetwork(script) /\ isMainnet(env)
    THEN "Public Global Stellar Network ; September 2015"
    ELSE "Test SDF Network ; September 2015"

\* const supportedNetwork = isMainnet ? SupportedNetworks.MAINNET : SupportedNetworks.TESTNET
supportedNetwork(script, env) ==
    IF ReadsNetwork(script) /\ isMainnet(env) THEN "mainnet" ELSE "testnet"

\* const explorerNetwork = isMainnet ? "public" : "testnet"
explorerNetwork(script, env) ==
    IF ReadsNetwork(script) /\ isMainnet(env) THEN "public" ELSE "testnet"

-----------------------------------------------------------------------------
(* Fees: decimal strings and numbers *)

RECURSIVE ParseInt(_)
\* parseInt of a non-empty string of decimal digits
ParseInt(ds) ==
    IF Len(ds) = 1 THEN ds[1]
    ELSE 10 * ParseInt(SubSeq(ds, 1, Len(ds) - 1)) + ds[Len(ds)]

RECURSIVE NumberToString(_)
\* Number.prototype.toString of a non-negative integer
NumberToString(n) == IF n < 10 THEN <<n>> ELSE NumberToString(n \div 10) \o <<n % 10>>

\* BASE_FEE of @stellar/stellar-sdk, "100"
BASE_FEE == <<1, 0, 0>>

\* slip: the inner fee is left out of the minimum and the multiplier is dropped
FeeBumpFee_BaseOnly(script, transaction) ==
    NumberToString(ParseInt(BASE_FEE) * transaction.operations)

\* the fee argument of buildFeeBumpTransaction
FeeBumpFee(script, transaction) ==
    LET innerTxFee == ParseInt(transaction.fee) IN
    IF script \in {"depositDynamic", "withdrawDynamic"}
    THEN LET baseFee == ParseInt(BASE_FEE)
             operationCount == transaction.operations
             minFeeBumpFee == innerTxFee + baseFee * operationCount
             dynamicFee == MathMax(minFeeBumpFee, innerTxFee * NetworkMultiplier)
         IN NumberToString(dynamicFee)
    ELSE NumberToString(innerTxFee)

-----------------------------------------------------------------------------
(* The DeFindex API and the Stellar SDK, as the scripts use them *)

\* transaction.fee values of the transactions the API builds
FeeInputs == {<<0>>, <<1, 0, 0>>, <<4, 5, 0, 0, 0>>}
\* transaction.operations.length of the transactions the API builds
OperationCounts == {0, 1, 2}

\* the unsigned envelopes the API returns as XDR
ApiTransactions ==
    { [fee |-> f, operations |-> n, signatures |-> {}] :
         f \in FeeInputs, n \in OperationCounts }

\* what the API call of a step may resolve with
ApiResponses(step) ==
    CASE step = "balance" ->
            {[t |-> "object", dfTokens |-> ts] :
                ts \in {<<(<<7>>)>>, <<(<<1, 2, 0>>), (<<7>>)>>}}
      [] step = "request" -> {[t |-> "object", xdr |-> tx] : tx \in ApiTransactions}
      [] OTHER -> {[t |-> "object", txHash |-> "hash"]}

\* what an API call may reject with
ApiFailures ==
    {ErrorObject(0, Num(429), Str("Too Many Requests"), Undefined),
     ErrorObject(0, Num(400), Undefined, Undefined)}

\* TransactionBuilder.fromXDR(xdr, networkPassphrase)
FromXDR(xdr, passphrase) ==
    [fee |-> xdr.fee, operations |-> xdr.operations, signatures |-> xdr.signatures,
     networkPassphrase |-> passphrase]

\* tx.sign(keypair): the signature is over the hash, which covers the passphrase
Sign(tx, signer) ==
    [tx EXCEPT !.signatures =
        @ \cup {[signer |-> signer, networkPassphrase |-> tx.networkPassphrase]}]

\* TransactionBuilder.buildFeeBumpTransaction(feeSource, baseFee, innerTx, networkPassphrase)
BuildFeeBumpTransaction(feeSource, baseFee, innerTx, passphrase) ==
    [feeSource |-> feeSource, baseFee |-> baseFee,
     innerSignatures |-> innerTx.signatures, innerFee |-> innerTx.fee,
     signatures |-> {}, networkPassphrase |-> passphrase]

\* feeBumpTx.toXDR(): the envelope, without the passphrase
ToXDR(feeBumpTx) ==
    [baseFee |-> feeBumpTx.baseFee, innerFee |-> feeBumpTx.innerFee,
     innerSignatures |-> feeBumpTx.innerSignatures,
     signatures |-> feeBumpTx.signatures]

\* slip: the last element of dfTokens is taken instead of the first
ApiRequest_LastToken ==
    LET net == supportedNetwork(scriptName, envNETWORK) IN
    CASE main.step = "balance" -> [method |-> "getVaultBalance", network |-> net]
      [] main.step = "request" /\ scriptName = "withdraw" ->
            [method |-> "withdrawShares", network |-> net,
             shares |-> ParseInt(main.balanceResponse.dfTokens[
                                     Len(main.balanceResponse.dfTokens)])]
      [] main.step = "request" /\ scriptName = "withdrawDynamic" ->
            [method |-> "withdrawFromVault", network |-> net]
      [] main.step = "request" -> [method |-> "depositToVault", network |-> net]
      [] OTHER -> [method |-> "sendTransaction", network |-> net,
                   xdr |-> main.feeBumpXdr]

\* the request fn makes at the current step
ApiRequest ==
    LET net == supportedNetwork(scriptName, envNETWORK) IN
    CASE main.step = "balance" -> [method |-> "getVaultBalance", network |-> net]
      [] main.step = "request" /\ scriptName = "withdraw" ->
            [method |-> "withdrawShares", network |-> net,
             shares |-> ParseInt(main.balanceResponse.dfTokens[1])]
      [] main.step = "request" /\ scriptName = "withdrawDynamic" ->
            [method |-> "withdrawFromVault", network |-> net]
      [] main.step = "request" -> [method |-> "depositToVault", network |-> net]
      [] OTHER -> [method |-> "sendTransaction", network |-> net,
                   xdr |-> main.feeBumpXdr]

-----------------------------------------------------------------------------
(* main() of the fee-bump scripts *)

\* main.step names the statement main() is at; main.awaiting is the
\* withRateLimit activation it is suspended on (0: none)
FeeBumpInit ==
    /\ InitOn({})
    /\ scriptName \in FeeBumpScripts
    /\ envNETWORK \in EnvNetworkInputs
    /\ main = [step |-> IF scriptName = "withdraw" THEN "balance" ELSE "request",
               awaiting |-> 0, balanceResponse |-> Undefined,
               transaction |-> Undefined, feeBumpTx |-> Undefined,
               feeBumpXdr |-> Undefined]
    /\ apiLog = <<>>
    /\ printed = ""

\* `await withRateLimit(() => ...)` with the default maxRetries and initialDelay
BeginWithRateLimit ==
    /\ scriptName \in FeeBumpScripts
    /\ main.step \in {"balance", "request", "submit"}
    /\ main.awaiting = 0
    /\ LET p == Cardinality(Invocations) + 1 IN
       /\ maxRetries' = (p :> DefaultMaxRetries) @@ maxRetries
       /\ initialDelay' = (p :> DefaultInitialDelay) @@ initialDelay
       /\ attempt' = (p :> 0) @@ attempt
       /\ lastError' = (p :> Undefined) @@ lastError
       /\ pc' = (p :> "loop") @@ pc
       /\ timer' = (p :> 0) @@ timer
       /\ settled' = (p :> Undefined) @@ settled
       /\ exitLine' = (p :> 0) @@ exitLine
       /\ calls' = (p :> 0) @@ calls
       /\ outcomes' = (p :> <<>>) @@ outcomes
       /\ waits' = (p :> <<>>) @@ waits
       /\ logs' = (p :> <<>>) @@ logs
       /\ main' = [main EXCEPT !.awaiting = p]
    /\ UNCHANGED <<scriptName, envNETWORK, apiLog, printed>>

\* fn is called: the arrow function makes the API request of the step
ApiCall(p) ==
    /\ p = main.awaiting
    /\ CallFn(p)
    /\ apiLog' = Append(apiLog, ApiRequest)
    /\ UNCHANGED <<scriptName, envNETWORK, main, printed>>

\* the API answers
ApiResolves(p) ==
    /\ p = main.awaiting
    /\ \E v \in ApiResponses(main.step) : FnResolves(p, v)
    /\ UNCHANGED scriptVars

\* the API request fails
ApiRejects(p) ==
    /\ p = main.awaiting
    /\ \E e \in ApiFailures : FnRejects(p, Raised(e, calls[p]))
    /\ UNCHANGED scriptVars

\* the backoff timer of the activation main() awaits fires
BackoffElapses(p) ==
    /\ p = main.awaiting
    /\ TimerFires(p)
    /\ UNCHANGED scriptVars

\* slip: the failure is caught and main() carries on with the same step
WithRateLimitThrows_Swallowed ==
    /\ scriptName \in FeeBumpScripts
    /\ main.awaiting # 0
    /\ pc[main.awaiting] = "throw"
    /\ Cardinality(Invocations) < 4
    /\ main' = [main EXCEPT !.awaiting = 0]
    /\ UNCHANGED <<scriptName, envNETWORK, apiLog, printed>>
    /\ UNCHANGED rateLimitVars

\* withRateLimit throws: main() rejects (the submit step logs and rethrows)
WithRateLimitThrows ==
    /\ scriptName \in FeeBumpScripts
    /\ main.awaiting # 0
    /\ pc[main.awaiting] = "throw"
    /\ main' = [main EXCEPT !.step = "failed", !.awaiting = 0]
    /\ UNCHANGED <<scriptName, envNETWORK, apiLog, printed>>
    /\ UNCHANGED rateLimitVars

\* const balanceResponse = await withRateLimit(() => getVaultBalance(...))
BalanceReturned ==
    /\ scriptName \in FeeBumpScripts
    /\ main.step = "balance"
    /\ main.awaiting # 0
    /\ pc[main.awaiting] = "return"
    /\ main' = [main EXCEPT !.step = "request", !.awaiting = 0,
                            !.balanceResponse = settled[main.awaiting]]
    /\ UNCHANGED <<scriptName, envNETWORK, apiLog, printed>>
    /\ UNCHANGED rateLimitVars

\* the response arrives: const transaction = TransactionBuilder.fromXDR(...)
RequestReturned ==
    /\ scriptName \in FeeBumpScripts
    /\ main.step = "request"
    /\ main.awaiting # 0
    /\ pc[main.awaiting] = "return"
    /\ main' = [main EXCEPT
                  !.step = "sign", !.awaiting = 0,
                  !.transaction = FromXDR(settled[main.awaiting].xdr,
                                          stellarNetwork(scriptName, envNETWORK))]
    /\ UNCHANGED <<scriptName, envNETWORK, apiLog, printed>>
    /\ UNCHANGED rateLimitVars

\* slip: the signing of the inner transaction is left out
SignInner_Skipped ==
    /\ scriptName \in FeeBumpScripts
    /\ main.step = "sign"
    /\ main' = [main EXCEPT !.step = "bump"]
    /\ UNCHANGED <<scriptName, envNETWORK, apiLog, printed>>
    /\ UNCHANGED rateLimitVars

\* transaction.sign(callerKeypair)
SignInner ==
    /\ scriptName \in FeeBumpScripts
    /\ main.step = "sign"
    /\ main' = [main EXCEPT !.step = "bump",
                            !.transaction = Sign(@, "caller")]
    /\ UNCHANGED <<scriptName, envNETWORK, apiLog, printed>>
    /\ UNCHANGED rateLimitVars

\* const feeBumpTx = TransactionBuilder.buildFeeBumpTransaction(...)
BuildFeeBump ==
    /\ scriptName \in FeeBumpScripts
    /\ main.step = "bump"
    /\ main' = [main EXCEPT
                  !.step = "signBump",
                  !.feeBumpTx = BuildFeeBumpTransaction(
                                   "sponsor", FeeBumpFee(scriptName, main.transaction),
                                   main.transaction,
                                   stellarNetwork(scriptName, envNETWORK))]
    /\ UNCHANGED <<scriptName, envNETWORK, apiLog, printed>>
    /\ UNCHANGED rateLimitVars

\* feeBumpTx.sign(sponsorKeypair); const feeBumpXdr = feeBumpTx.toXDR()
SignFeeBump ==
    /\ scriptName \in FeeBumpScripts
    /\ main.step = "signBump"
    /\ LET signed == Sign(main.feeBumpTx, "sponsor") IN
       main' = [main EXCEPT !.step = "submit", !.feeBumpTx = signed,
                            !.feeBumpXdr = ToXDR(signed)]
    /\ UNCHANGED <<scriptName, envNETWORK, apiLog, printed>>
    /\ UNCHANGED rateLimitVars

\* sendTransaction succeeded: the explorer link is printed
SubmitReturned ==
    /\ scriptName \in FeeBumpScripts
    /\ main.step = "submit"
    /\ main.awaiting # 0
    /\ pc[main.awaiting] = "return"
    /\ main' = [main EXCEPT !.step = "done", !.awaiting = 0]
    /\ printed' = explorerNetwork(scriptName, envNETWORK)
    /\ UNCHANGED <<scriptName, envNETWORK, apiLog>>
    /\ UNCHANGED rateLimitVars

-----------------------------------------------------------------------------
(* main() of report-and-lock-fees.mjs *)

\* const VAULT_CONTRACT_ID
VAULT_CONTRACT_ID == "CD4JGS6BB5NZVSNKRNI43GUC6E3OBYLCLBQZJVTZLDVHQ5KDAOHVOIQF"

\* new InvocationV0({contract, method, args})
InvocationV0(contract, method, args) ==
    [contract |-> contract, method |-> method, args |-> args]

\* const getManagerInvocation
getManagerInvocation == <<InvocationV0(VAULT_CONTRACT_ID, "get_manager", <<>>)>>

\* slip: lock_fees is placed before report
invocations_LockFirst ==
    <<InvocationV0(VAULT_CONTRACT_ID, "lock_fees", <<"scvVoid">>),
      InvocationV0(VAULT_CONTRACT_ID, "report", <<>>)>>

\* const invocations
invocations ==
    <<InvocationV0(VAULT_CONTRACT_ID, "report", <<>>),
      InvocationV0(VAULT_CONTRACT_ID, "lock_fees", <<"scvVoid">>)>>

\* what the first simulation may return as managerResult
ManagerResults == {<<"GMANAGERA">>, <<"GMANAGERB">>}

LockedFeesInit ==
    /\ InitOn({})
    /\ scriptName = "reportAndLockFees"
    /\ envNETWORK = Undefined
    /\ main = [step |-> "simulation1", awaiting |-> 0, MANAGER_ACCOUNT |-> Undefined]
    /\ apiLog = <<>>
    /\ printed = ""

\* await sdk.simResult(getManagerInvocation): the request is made
SimulateGetManager ==
    /\ scriptName = "reportAndLockFees"
    /\ main.step = "simulation1"
    /\ main.awaiting = 0
    /\ apiLog' = Append(apiLog, [method |-> "simResult",
                                 invocations |-> getManagerInvocation,
                                 caller |-> Undefined, source |-> Undefined])
    /\ main' = [main EXCEPT !.awaiting = 1]
    /\ UNCHANGED <<scriptName, envNETWORK, printed>>
    /\ UNCHANGED rateLimitVars

\* the first simulation returns: const MANAGER_ACCOUNT = managerResult[0]
GetManagerReturned ==
    /\ scriptName = "reportAndLockFees"
    /\ main.step = "simulation1"
    /\ main.awaiting = 1
    /\ \E managerResult \in ManagerResults :
          main' = [main EXCEPT !.step = "simulation2", !.awaiting = 0,
                               !.MANAGER_ACCOUNT = Str(managerResult[1])]
    /\ UNCHANGED <<scriptName, envNETWORK, apiLog, printed>>
    /\ UNCHANGED rateLimitVars

\* await sdk.simResult(invocations, {caller, source}): the request is made
SimulateReportAndLockFees ==
    /\ scriptName = "reportAndLockFees"
    /\ main.step = "simulation2"
    /\ main.awaiting = 0
    /\ apiLog' = Append(apiLog, [method |-> "simResult",
                                 invocations |-> invocations,
                                 caller |-> main.MANAGER_ACCOUNT,
                                 source |-> main.MANAGER_ACCOUNT])
    /\ main' = [main EXCEPT !.awaiting = 1]
    /\ UNCHANGED <<scriptName, envNETWORK, printed>>
    /\ UNCHANGED rateLimitVars

\* the second simulation returns: the results are printed
ReportAndLockFeesReturned ==
    /\ scriptName = "reportAndLockFees"
    /\ main.step = "simulation2"
    /\ main.awaiting = 1
    /\ main' = [main EXCEPT !.step = "done", !.awaiting = 0]
    /\ UNCHANGED <<scriptName, envNETWORK, apiLog, printed>>
    /\ UNCHANGED rateLimitVars

\* a simulation fails: the catch block reports the error, main() ends
SimulationRejects ==
    /\ scriptName = "reportAndLockFees"
    /\ main.awaiting = 1
    /\ main' = [main EXCEPT !.step = "caught", !.awaiting = 0]
    /\ UNCHANGED <<scriptName, envNETWORK, apiLog, printed>>
    /\ UNCHANGED rateLimitVars

-----------------------------------------------------------------------------
(* The scripts *)

ScriptInit == FeeBumpInit \/ LockedFeesInit

\* With maxRetries = 5 the loop test of withRateLimit never fails, so the
\* throw after the loop is no step of a script.
ScriptNext ==
    \/ BeginWithRateLimit
    \/ \E p \in Invocations : ApiCall(p)
    \/ \E p \in Invocations : ApiResolves(p)
    \/ \E p \in Invocations : ApiRejects(p)
    \/ \E p \in Invocations : BackoffElapses(p)
    \/ WithRateLimitThrows
    \/ BalanceReturned
    \/ RequestReturned
    \/ SignInner
    \/ BuildFeeBump
    \/ SignFeeBump
    \/ SubmitReturned
    \/ SimulateGetManager
    \/ GetManagerReturned
    \/ SimulateReportAndLockFees
    \/ ReportAndLockFeesReturned
    \/ SimulationRejects

ScriptSpec == ScriptInit /\ [][ScriptNext]_vars

-----------------------------------------------------------------------------
(* Vocabulary of the properties *)

\* the failure carries status code 429 or the error 'Too Many Requests'
HasRateLimitMarker(e) ==
    /\ e.t = "object"
    /\ (e.statusCode = Num(429) \/ e.error = Str("Too Many Requests"))

\* call k of fn by invocation p has finished, with a failure
FailedCall(p, k) == k \in 1 .. Len(outcomes[p]) /\ ~outcomes[p][k].ok

\* call k of fn by invocation p has finished, with a rate-limit failure
RateLimitedCall(p, k) == FailedCall(p, k) /\ HasRateLimitMarker(outcomes[p][k].value)

\* the first n calls of fn by invocation p all ended in rate-limit failures
AllRateLimited(p, n) == \A k \in 1 .. n : RateLimitedCall(p, k)

Terminated(p) == pc[p] \in {"return", "throw"}

\* d is the larger of a and b
IsLargerOf(d, a, b) == d >= a /\ d >= b /\ (d = a \/ d = b)

\* the delay of the wait that follows call k of invocation p: elapsed, or pending
WaitAfterCall(p, k) == IF k <= Len(waits[p]) THEN waits[p][k] ELSE timer[p]

\* a wait follows call k of invocation p: elapsed, or pending
HasWaitAfterCall(p, k) ==
    k <= Len(waits[p]) \/ (k = Len(waits[p]) + 1 /\ pc[p] = "sleep")

-----------------------------------------------------------------------------
(* Properties *)

\* C1: for every maxRetries >= 0, when the first call of fn fails with a
\* failure that has no rate-limit marker, fn has been invoked exactly once,
\* nothing is or was waited for or notified, and the invocation has thrown
\* that very failure.
C1_NonRetryableFirstAttempt ==
    \A p \in Invocations :
        (maxRetries[p] >= 0 /\ FailedCall(p, 1)
            /\ ~HasRateLimitMarker(outcomes[p][1].value))
        => /\ pc[p] = "throw"
           /\ settled[p] = outcomes[p][1].value
           /\ calls[p] = 1
           /\ Len(outcomes[p]) = 1
           /\ waits[p] = <<>>
           /\ logs[p] = <<>>

\* C1 witness: status 400 on the first call, two retries still allowed
C1_Witness ==
    \E p \in Invocations :
        /\ maxRetries[p] = 2
        /\ FailedCall(p, 1)
        /\ Prop(outcomes[p][1].value, "statusCode") = Num(400)
        /\ ~HasRateLimitMarker(outcomes[p][1].value)
        /\ pc[p] = "throw"

\* C2: for every maxRetries >= 0, as long as every finished call of fn ended
\* in a rate-limit failure, fn is invoked at most maxRetries + 1 times; the
\* invocation ends exactly when call maxRetries + 1 has failed, after exactly
\* maxRetries waits, by throwing the failure of that last call.
C2_AlwaysRateLimited ==
    \A p \in Invocations :
        (maxRetries[p] >= 0 /\ AllRateLimited(p, Len(outcomes[p])))
        => /\ calls[p] <= maxRetries[p] + 1
           /\ Terminated(p) <=> Len(outcomes[p]) = maxRetries[p] + 1
           /\ Terminated(p) =>
                /\ pc[p] = "throw"
                /\ calls[p] = maxRetries[p] + 1
                /\ Len(waits[p]) = maxRetries[p]
                /\ settled[p] = outcomes[p][maxRetries[p] + 1].value

\* C2 witness: maxRetries = 2, three rate-limit failures, thrown
C2_Witness ==
    \E p \in Invocations :
        /\ maxRetries[p] = 2
        /\ Len(outcomes[p]) = 3
        /\ AllRateLimited(p, 3)
        /\ pc[p] = "throw"

\* C3: for every maxRetries >= 0, after k <= maxRetries rate-limit failures
\* the invocation has not given up, and when call k + 1 then succeeds the
\* invocation has returned that call's result after exactly k + 1 calls and
\* exactly k waits.
C3_SuccessAfterRateLimits ==
    \A p \in Invocations :
        LET n == Len(outcomes[p]) IN
        /\ (maxRetries[p] >= 0 /\ n <= maxRetries[p] /\ AllRateLimited(p, n))
           => ~Terminated(p)
        /\ (maxRetries[p] >= 0 /\ n >= 1 /\ n - 1 <= maxRetries[p]
              /\ AllRateLimited(p, n - 1) /\ outcomes[p][n].ok)
           => /\ pc[p] = "return"
              /\ settled[p] = outcomes[p][n].value
              /\ calls[p] = n
              /\ Len(waits[p]) = n - 1

\* C3 witness: two status-429 failures, then a success that is returned
C3_Witness ==
    \E p \in Invocations :
        /\ Len(outcomes[p]) = 3
        /\ AllRateLimited(p, 2)
        /\ Prop(outcomes[p][1].value, "statusCode") = Num(429)
        /\ outcomes[p][3].ok
        /\ pc[p] = "return"
        /\ Len(waits[p]) = 2

\* C4: when the first call of fn succeeds the invocation has returned its
\* result after that single call, with no wait and no notification; and no
\* call of fn is ever made after one that succeeded.
C4_FirstAttemptSucceeds ==
    \A p \in Invocations :
        /\ (Len(outcomes[p]) >= 1 /\ outcomes[p][1].ok)
           => /\ pc[p] = "return"
              /\ settled[p] = outcomes[p][1].value
              /\ calls[p] = 1
              /\ waits[p] = <<>>
              /\ logs[p] = <<>>
        /\ \A k \in 1 .. Len(outcomes[p]) :
              outcomes[p][k].ok => (calls[p] = k /\ pc[p] = "return")

\* C4 witness: the first call succeeded
C4_Witness ==
    \E p \in Invocations :
        /\ Len(outcomes[p]) = 1
        /\ outcomes[p][1].ok
        /\ settled[p] = Str("txHash")
        /\ pc[p] = "return"

\* C5: when call number i + 1 (attempt index i < maxRetries) fails with a
\* rate-limit failure carrying retryAfter = r > 0, the wait that follows it
\* lasts exactly the larger of r * 1000 and initialDelay * 2^i ms, so at
\* least r * 1000 ms.
C5_RetryAfterFloor ==
    \A p \in Invocations : \A k \in 1 .. Len(outcomes[p]) :
        LET r == Prop(outcomes[p][k].value, "retryAfter") IN
        (RateLimitedCall(p, k) /\ k - 1 < maxRetries[p]
            /\ r.t = "number" /\ r.n > 0)
        => /\ HasWaitAfterCall(p, k)
           /\ IsLargerOf(WaitAfterCall(p, k), r.n * 1000,
                         initialDelay[p] * (2 ^ (k - 1)))
           /\ WaitAfterCall(p, k) >= r.n * 1000

\* C5 witness: retryAfter = 5 twice with initialDelay = 3000: the server's
\* 5000 ms wins at attempt 0, the exponential 6000 ms wins at attempt 1
C5_Witness ==
    \E p \in Invocations :
        /\ initialDelay[p] = 3000
        /\ Len(outcomes[p]) >= 2
        /\ RateLimitedCall(p, 1) /\ RateLimitedCall(p, 2)
        /\ Prop(outcomes[p][1].value, "retryAfter") = Num(5)
        /\ Prop(outcomes[p][2].value, "retryAfter") = Num(5)
        /\ waits[p] = <<5000, 6000>>

\* C6: when call number i + 1 (attempt index i < maxRetries) fails with a
\* rate-limit failure that has no retryAfter, the wait that follows it lasts
\* exactly the larger of 1000 and initialDelay * 2^i ms, so at least 1000 ms
\* whatever initialDelay > 0 is.
C6_DefaultServerDelay ==
    \A p \in Invocations : \A k \in 1 .. Len(outcomes[p]) :
        (RateLimitedCall(p, k) /\ k - 1 < maxRetries[p]
            /\ Prop(outcomes[p][k].value, "retryAfter") \in {Undefined, Null})
        => /\ HasWaitAfterCall(p, k)
           /\ IsLargerOf(WaitAfterCall(p, k), 1000,
                         initialDelay[p] * (2 ^ (k - 1)))
           /\ WaitAfterCall(p, k) >= 1000

\* C6 witness: no retryAfter, initialDelay = 100 waits 1000 ms at attempt 0
\* and at attempt 1
C6_Witness ==
    \E p \in Invocations :
        /\ initialDelay[p] = 100
        /\ Len(outcomes[p]) >= 2
        /\ RateLimitedCall(p, 1) /\ RateLimitedCall(p, 2)
        /\ Prop(outcomes[p][1].value, "retryAfter") = Undefined
        /\ Prop(outcomes[p][2].value, "retryAfter") = Undefined
        /\ waits[p] = <<1000, 1000>>

\* C7: a failed call with retries remaining is followed by a wait and a
\* retry if and only if the failure has status code 429 or the error 'Too
\* Many Requests'; otherwise the invocation throws at once.
C7_RateLimitClassification ==
    \A p \in Invocations : \A k \in 1 .. Len(outcomes[p]) :
        (FailedCall(p, k) /\ k - 1 < maxRetries[p])
        => /\ HasWaitAfterCall(p, k) <=> HasRateLimitMarker(outcomes[p][k].value)
           /\ (pc[p] = "throw" /\ k = Len(outcomes[p]))
                 <=> ~HasRateLimitMarker(outcomes[p][k].value)

\* C7 witness: a failure with status 400 and error 'Too Many Requests' was
\* retried
C7_Witness ==
    \E p \in Invocations :
        /\ FailedCall(p, 1)
        /\ Prop(outcomes[p][1].value, "statusCode") = Num(400)
        /\ Prop(outcomes[p][1].value, "error") = Str("Too Many Requests")
        /\ calls[p] = 2

\* C8: when one or more rate-limit failures are followed, with retries still
\* remaining, by a failure without a rate-limit marker, the invocation has
\* thrown that last failure with no wait after it and no further call of fn.
C8_MixedFailureKinds ==
    \A p \in Invocations :
        LET n == Len(outcomes[p]) IN
        (n >= 2 /\ n - 1 < maxRetries[p] /\ AllRateLimited(p, n - 1)
            /\ FailedCall(p, n) /\ ~HasRateLimitMarker(outcomes[p][n].value))
        => /\ pc[p] = "throw"
           /\ settled[p] = outcomes[p][n].value
           /\ \A k \in 1 .. (n - 1) : settled[p] # outcomes[p][k].value
           /\ calls[p] = n
           /\ Len(waits[p]) = n - 1
           /\ Len(logs[p]) = n - 1

\* C8 witness: status 429, then status 400 on the second of three allowed
\* calls
C8_Witness ==
    \E p \in Invocations :
        /\ maxRetries[p] = 2
        /\ Len(outcomes[p]) = 2
        /\ Prop(outcomes[p][1].value, "statusCode") = Num(429)
        /\ Prop(outcomes[p][2].value, "statusCode") = Num(400)
        /\ ~HasRateLimitMarker(outcomes[p][2].value)
        /\ pc[p] = "throw"

\* C9: for maxRetries >= 0, an invocation that has thrown delivers the value
\* the last call of fn rejected with, field for field, and not the failure
\* of an earlier call.
C9_FailureUnchanged ==
    \A p \in Invocations :
        (maxRetries[p] >= 0 /\ pc[p] = "throw")
        => LET n == Len(outcomes[p]) IN
           /\ n = calls[p]
           /\ FailedCall(p, n)
           /\ settled[p] = outcomes[p][n].value
           /\ \A k \in 1 .. (n - 1) : settled[p] # outcomes[p][k].value

\* C9 witness: exhaustion after an earlier failure with other fields
C9_Witness ==
    \E p \in Invocations :
        /\ maxRetries[p] = 1
        /\ pc[p] = "throw"
        /\ Len(outcomes[p]) = 2
        /\ Prop(outcomes[p][1].value, "retryAfter") = Undefined
        /\ Prop(settled[p], "statusCode") = Num(429)
        /\ Prop(settled[p], "retryAfter") = Num(5)

\* C10: for maxRetries >= 0, a terminated invocation has either returned the
\* result of its last call of fn, which succeeded, or thrown a failure one of
\* its calls of fn rejected with; it has not returned when its last call
\* failed.
C10_NoFailureSwallowed ==
    \A p \in Invocations :
        (maxRetries[p] >= 0 /\ Terminated(p))
        => LET n == Len(outcomes[p]) IN
           /\ n >= 1
           /\ n = calls[p]
           /\ pc[p] = "return" => (outcomes[p][n].ok /\ settled[p] = outcomes[p][n].value)
           /\ pc[p] = "throw" => \E k \in 1 .. n :
                                    FailedCall(p, k) /\ settled[p] = outcomes[p][k].value
           /\ ~outcomes[p][n].ok => pc[p] = "throw"

\* C10 witness: the last allowed call failed and the invocation threw
C10_Witness ==
    \E p \in Invocations :
        /\ maxRetries[p] = 0
        /\ Len(outcomes[p]) = 1
        /\ RateLimitedCall(p, 1)
        /\ pc[p] = "throw"
        /\ exitLine[p] = 36

-----------------------------------------------------------------------------
(* Properties of concurrent invocations *)

\* everything invocation p owns
Locals(p) ==
    <<maxRetries[p], initialDelay[p], attempt[p], lastError[p], pc[p], timer[p],
      settled[p], exitLine[p], calls[p], outcomes[p], waits[p], logs[p]>>

\* the delay an invocation running alone waits after a rate-limit failure e
\* at attempt index i
DelayAlone(e, delay0, i) ==
    LET r == e.retryAfter
        server == IF r.t = "number" /\ r.n # 0 THEN r.n * 1000 ELSE 1000
        backoff == delay0 * (2 ^ i)
    IN IF server >= backoff THEN server ELSE backoff

\* invocation p is where its own inputs and its own operation's outcomes put
\* an invocation that runs alone
SameAsAlone(p) ==
    LET n == Len(outcomes[p]) IN
    /\ attempt[p] = Len(waits[p])
    /\ calls[p] = attempt[p] + (IF pc[p] = "loop" \/ exitLine[p] = 40 THEN 0 ELSE 1)
    /\ n = calls[p] - (IF pc[p] = "call" THEN 1 ELSE 0)
    /\ \A k \in 1 .. n :
          (RateLimitedCall(p, k) /\ k - 1 < maxRetries[p])
          => /\ HasWaitAfterCall(p, k)
             /\ WaitAfterCall(p, k) =
                   DelayAlone(outcomes[p][k].value, initialDelay[p], k - 1)
    /\ \A k \in 1 .. n :
          ~(RateLimitedCall(p, k) /\ k - 1 < maxRetries[p])
          => /\ k = n
             /\ pc[p] = (IF outcomes[p][k].ok THEN "return" ELSE "throw")
             /\ settled[p] = outcomes[p][k].value
    /\ (maxRetries[p] >= 0 /\ Terminated(p)) => n >= 1
    /\ lastError[p] = (IF \E k \in 1 .. n : FailedCall(p, k)
                       THEN outcomes[p][CHOOSE k \in 1 .. n :
                               FailedCall(p, k) /\ \A j \in (k + 1) .. n : ~FailedCall(p, j)].value
                       ELSE Undefined)

\* a step changes the locals of one invocation only
OnlyOwnLocals ==
    \A p \in Invocations : \A q \in Invocations \ {p} :
        Locals(p)' # Locals(p) => Locals(q)' = Locals(q)

\* C11: with two invocations running concurrently on different operations,
\* under every interleaving each invocation's outcome, number of attempts and
\* waits are those of the same invocation running alone, and no step of one
\* changes the other's attempt counter, lastError or any other local.
C11_ConcurrentIndependence ==
    /\ [](\A p \in Invocations : SameAsAlone(p))
    /\ [][OnlyOwnLocals]_vars

\* C11 witness: both invocations are waiting at once, on different attempt
\* counters and different last errors
C11_Witness ==
    /\ Invocations = {1, 2}
    /\ pc[1] = "sleep" /\ pc[2] = "sleep"
    /\ attempt[1] = 1 /\ attempt[2] = 0
    /\ lastError[1] # lastError[2]
    /\ timer[1] # timer[2]

-----------------------------------------------------------------------------
(* Termination *)

\* the three ways an invocation with maxRetries >= 0 ends
ExitsBySuccess(p) ==
    /\ pc[p] = "return"
    /\ outcomes[p][Len(outcomes[p])].ok

ExitsByNonRetryable(p) ==
    /\ pc[p] = "throw"
    /\ FailedCall(p, Len(outcomes[p]))
    /\ ~HasRateLimitMarker(outcomes[p][Len(outcomes[p])].value)

ExitsByExhaustion(p) ==
    /\ pc[p] = "throw"
    /\ RateLimitedCall(p, Len(outcomes[p]))
    /\ calls[p] = maxRetries[p] + 1

BoundedExits ==
    \A p \in Invocations :
        maxRetries[p] >= 0
        => /\ calls[p] <= maxRetries[p] + 1
           /\ Terminated(p)
              => /\ Len(outcomes[p]) = calls[p]
                 /\ calls[p] >= 1
                 /\ \/ ExitsBySuccess(p)
                    \/ ExitsByNonRetryable(p)
                    \/ ExitsByExhaustion(p)

\* C12: for maxRetries >= 0, when every call of fn settles and every timer
\* fires, the invocation eventually terminates; it never makes more than
\* maxRetries + 1 calls, and it ends only by a successful call, by a failure
\* without rate-limit marker, or by a rate-limit failure of call
\* maxRetries + 1.
C12_Termination ==
    /\ []BoundedExits
    /\ \A p \in {1} : (maxRetries[p] >= 0) ~> Terminated(p)

\* C12 witness: an invocation that ended by exhaustion after three calls
C12_Witness ==
    \E p \in Invocations :
        /\ maxRetries[p] = 2
        /\ ExitsByExhaustion(p)
        /\ calls[p] = 3
        /\ exitLine[p] = 36

-----------------------------------------------------------------------------
(* retryAfter = 0 *)

\* C13 (as claimed): when a rate-limit failure with retries remaining carries
\* retryAfter = 0, the server term is 0 ms and the wait at attempt index i is
\* initialDelay * 2^i ms.
C13_ZeroRetryAfterAsClaimed ==
    \A p \in Invocations : \A k \in 1 .. Len(outcomes[p]) :
        (RateLimitedCall(p, k) /\ k - 1 < maxRetries[p]
            /\ Prop(outcomes[p][k].value, "retryAfter") = Num(0))
        => /\ HasWaitAfterCall(p, k)
           /\ WaitAfterCall(p, k) = initialDelay[p] * (2 ^ (k - 1))

-----------------------------------------------------------------------------
(* The wait does not block *)

\* C14: while one invocation is waiting between retries, every other
\* invocation that has not terminated can take its next step (start a call,
\* have it settle, have its own timer fire, terminate): none needs the wait
\* of another to finish first.
C14_WaitDoesNotBlock ==
    \A p \in Invocations : \A q \in Invocations \ {p} :
        (pc[p] = "sleep" /\ ~Terminated(q)) => ENABLED StepOf(q)

\* C14 witness: invocation 1 is still in its first wait while invocation 2
\* has made two calls, completed a wait of its own and terminated
C14_Witness ==
    /\ Invocations = {1, 2}
    /\ pc[1] = "sleep" /\ attempt[1] = 0
    /\ Terminated(2)
    /\ calls[2] = 2
    /\ Len(waits[2]) = 1

-----------------------------------------------------------------------------
(* Properties of the fee-bump scripts *)

\* the signers of a set of signatures
Signers(signatures) == {sig.signer : sig \in signatures}

\* the positions of the log at which method was requested
RequestsOf(method) == {i \in 1 .. Len(apiLog) : apiLog[i].method = method}

\* the request for the unsigned transaction
IsTransactionRequest(i) ==
    apiLog[i].method \in {"depositToVault", "withdrawShares", "withdrawFromVault"}

\* C15: in each fee-bump script the unsigned transaction is requested from
\* the API first, the caller then signs it, the fee-bump transaction is then
\* built around the signed transaction and signed by the sponsor, and only
\* then is it submitted: every sendTransaction request carries an envelope
\* with the caller's inner signature and the sponsor's outer signature.
C15_FeeBumpStepOrder ==
    scriptName \in FeeBumpScripts =>
    /\ \A i \in RequestsOf("sendTransaction") :
          /\ "caller" \in Signers(apiLog[i].xdr.innerSignatures)
          /\ "sponsor" \in Signers(apiLog[i].xdr.signatures)
          /\ \E j \in 1 .. (i - 1) : IsTransactionRequest(j)
          /\ main.step \in {"submit", "done", "failed"}
    /\ main.transaction # Undefined =>
          /\ \E j \in 1 .. Len(apiLog) : IsTransactionRequest(j)
          /\ \E p \in Invocations :
                pc[p] = "return" /\ "xdr" \in DOMAIN settled[p]
          /\ main.step # "sign" <=> "caller" \in Signers(main.transaction.signatures)
    /\ main.transaction = Undefined => main.feeBumpTx = Undefined
    /\ main.feeBumpTx # Undefined =>
          /\ "caller" \in Signers(main.feeBumpTx.innerSignatures)
          /\ main.feeBumpTx.innerSignatures = main.transaction.signatures
          /\ main.step # "signBump" <=> "sponsor" \in Signers(main.feeBumpTx.signatures)
    /\ main.feeBumpTx = Undefined => RequestsOf("sendTransaction") = {}
    /\ main.feeBumpXdr # Undefined => main.feeBumpXdr = ToXDR(main.feeBumpTx)

\* C15 witness: the withdraw script has submitted its fee-bump transaction
C15_Witness ==
    /\ scriptName = "withdraw"
    /\ main.step = "done"
    /\ RequestsOf("sendTransaction") # {}
    /\ RequestsOf("withdrawShares") # {}

\* C16: in every fee-bump script the fee given to buildFeeBumpTransaction is
\* at least the inner transaction's fee: it is the inner fee in the current
\* scripts and the larger of innerTxFee + baseFee * operationCount and
\* innerTxFee * 10 in the dynamic-fee scripts.
C16_FeeBumpFeeAtLeastInner ==
    (scriptName \in FeeBumpScripts /\ main.feeBumpTx # Undefined) =>
    LET inner == ParseInt(main.transaction.fee)
        outer == ParseInt(main.feeBumpTx.baseFee)
    IN /\ outer >= inner
       /\ scriptName \in {"deposit", "withdraw"} => outer = inner
       /\ scriptName \in {"depositDynamic", "withdrawDynamic"} =>
             IsLargerOf(outer, inner + 100 * main.transaction.operations, inner * 10)
       /\ main.feeBumpTx.innerFee = main.transaction.fee

\* C16 witness: a dynamic-fee script on an inner fee of 45000 with two
\* operations passes a fee of 450000
C16_Witness ==
    /\ scriptName = "withdrawDynamic"
    /\ main.feeBumpTx # Undefined
    /\ main.transaction.fee = <<4, 5, 0, 0, 0>>
    /\ main.transaction.operations = 2
    /\ main.feeBumpTx.baseFee = <<4, 5, 0, 0, 0, 0>>

\* the NETWORK values explored that read "mainnet" when lower-cased
SaysMainnet(env) ==
    env \in {Text(<<"m", "a", "i", "n", "n", "e", "t">>),
             Text(<<"M", "A", "I", "N", "N", "E", "T">>),
             Text(<<"M", "a", "i", "n", "n", "e", "t">>)}

\* the network a passphrase, an API network or an explorer path stands for
NetworkDenoted(name) ==
    IF name \in {"Public Global Stellar Network ; September 2015", "mainnet", "public"}
    THEN "mainnet"
    ELSE "testnet"

\* the networks the script has used so far
NetworksUsed ==
    {NetworkDenoted(apiLog[i].network) : i \in 1 .. Len(apiLog)}
    \cup (IF main.transaction # Undefined
          THEN {NetworkDenoted(main.transaction.networkPassphrase)}
               \cup {NetworkDenoted(sig.networkPassphrase) :
                        sig \in main.transaction.signatures}
          ELSE {})
    \cup (IF main.feeBumpTx # Undefined
          THEN {NetworkDenoted(main.feeBumpTx.networkPassphrase)}
               \cup {NetworkDenoted(sig.networkPassphrase) :
                        sig \in main.feeBumpTx.signatures}
          ELSE {})
    \cup (IF printed # "" THEN {NetworkDenoted(printed)} ELSE {})

-----------------------------------------------------------------------------
(* Properties of the locked-fees script *)

\* C18: the locked-fees script simulates get_manager alone first and, once
\* that has returned, one batch of report followed by lock_fees(None) with
\* the returned address as caller and as source; a successful run has made
\* exactly these two simulations.
C18_TwoSimulationsInOrder ==
    scriptName = "reportAndLockFees" =>
    /\ Len(apiLog) <= 2
    /\ Len(apiLog) >= 1 =>
          /\ Len(apiLog[1].invocations) = 1
          /\ apiLog[1].invocations[1].method = "get_manager"
          /\ apiLog[1].caller = Undefined /\ apiLog[1].source = Undefined
    /\ Len(apiLog) = 2 =>
          /\ main.MANAGER_ACCOUNT \in {Str(r[1]) : r \in ManagerResults}
          /\ Len(apiLog[2].invocations) = 2
          /\ apiLog[2].invocations[1].method = "report"
          /\ apiLog[2].invocations[1].args = <<>>
          /\ apiLog[2].invocations[2].method = "lock_fees"
          /\ apiLog[2].invocations[2].args = <<"scvVoid">>
          /\ apiLog[2].caller = main.MANAGER_ACCOUNT
          /\ apiLog[2].source = main.MANAGER_ACCOUNT
    /\ main.MANAGER_ACCOUNT = Undefined => Len(apiLog) <= 1
    /\ main.step = "done" => Len(apiLog) = 2

\* C18 witness: a successful run, the manager was GMANAGERB
C18_Witness ==
    /\ scriptName = "reportAndLockFees"
    /\ main.step = "done"
    /\ Len(apiLog) = 2
    /\ apiLog[2].caller = Str("GMANAGERB")

-----------------------------------------------------------------------------
(* Notifications and the order of attempts within one invocation *)

\* the calls of invocation p that ended in a rate-limit failure while
\* retries remained (call k is the attempt of index k - 1)
RetriedCalls(p) ==
    {k \in 1 .. Len(outcomes[p]) : RateLimitedCall(p, k) /\ k - 1 < maxRetries[p]}

\* a step adds a notification only as it starts a wait, and the notification
\* names attempt index + 1, maxRetries and the delay of that wait
NotifiesAsWaitStarts ==
    \A p \in Invocations :
        logs'[p] # logs[p] =>
            /\ pc[p] = "call" /\ pc'[p] = "sleep"
            /\ logs'[p] = Append(logs[p], [delayMs |-> timer'[p],
                                           retry |-> attempt[p] + 1,
                                           maxRetries |-> maxRetries[p]])

\* C19: exactly one notification is emitted per wait, as the wait starts; it
\* reports the retry number (attempt index + 1), the configured maxRetries
\* and the delay that is then waited; a success, a non-retryable failure and
\* the rate-limit failure that exhausts the retries emit none.
C19_OneNotificationPerWait ==
    /\ [](\A p \in Invocations :
            /\ Len(logs[p]) = Len(waits[p]) + (IF pc[p] = "sleep" THEN 1 ELSE 0)
            /\ Len(logs[p]) = Cardinality(RetriedCalls(p))
            /\ \A k \in 1 .. Len(logs[p]) :
                  /\ k \in RetriedCalls(p)
                  /\ logs[p][k] = [delayMs |-> WaitAfterCall(p, k),
                                   retry |-> k,
                                   maxRetries |-> maxRetries[p]]
            /\ (Terminated(p) /\ calls[p] > 0) => Len(logs[p]) = calls[p] - 1)
    /\ [][NotifiesAsWaitStarts]_vars

\* C19 witness: two waits were notified and elapsed, the third rate-limit
\* failure exhausted the retries without a notification
C19_Witness ==
    \E p \in Invocations :
        /\ maxRetries[p] = 2
        /\ pc[p] = "throw" /\ exitLine[p] = 36
        /\ AllRateLimited(p, 3)
        /\ Len(logs[p]) = 2 /\ Len(waits[p]) = 2
        /\ logs[p][2].retry = 2

\* C20: within one invocation at most one call of fn is in flight, and call
\* k + 1 starts only after call k has failed with a rate-limit failure and
\* the whole wait computed for it has elapsed.
C20_SequentialAttempts ==
    \A p \in Invocations :
        /\ calls[p] - Len(outcomes[p]) \in {0, 1}
        /\ pc[p] = "call" <=> calls[p] = Len(outcomes[p]) + 1
        /\ \A k \in 1 .. (calls[p] - 1) :
              /\ RateLimitedCall(p, k)
              /\ k <= Len(waits[p])
              /\ waits[p][k] = DelayMs(outcomes[p][k].value, initialDelay[p], k - 1)
              /\ waits[p][k] = logs[p][k].delayMs
        /\ pc[p] = "sleep" =>
              /\ calls[p] = Len(outcomes[p])
              /\ Len(waits[p]) = calls[p] - 1
              /\ timer[p] > 0

\* C20 witness: the third call is in flight after two rate-limit failures
\* whose waits of 5000 ms and 2000 ms have elapsed
C20_Witness ==
    \E p \in Invocations :
        /\ initialDelay[p] = 1000
        /\ pc[p] = "call" /\ calls[p] = 3
        /\ AllRateLimited(p, 2)
        /\ waits[p] = <<5000, 2000>>

-----------------------------------------------------------------------------
(* Exhaustion, the attempt index and the statement after the loop *)

\* invocation p threw the rate-limit failure of its attempt of index maxRetries
Exhausted(p) ==
    /\ maxRetries[p] >= 0
    /\ pc[p] = "throw"
    /\ calls[p] = maxRetries[p] + 1
    /\ RateLimitedCall(p, calls[p])

\* the step in which the attempt of index maxRetries fails with a rate-limit
\* failure throws it, starts no timer and no call
ExhaustingFailureThrows ==
    \A p \in Invocations :
        (/\ pc[p] = "call"
         /\ attempt[p] = maxRetries[p]
         /\ Len(outcomes'[p]) = Len(outcomes[p]) + 1
         /\ RateLimitedCall(p, calls[p])') =>
            /\ pc'[p] = "throw"
            /\ settled'[p] = outcomes'[p][calls[p]].value
            /\ timer'[p] = 0 /\ waits'[p] = waits[p] /\ logs'[p] = logs[p]
            /\ calls'[p] = calls[p]

\* C21: when the attempt of index maxRetries fails with a rate-limit failure
\* the failure is propagated at once: the delay computed for it is not
\* waited for and fn is not called again.
C21_NoWaitOnExhaustion ==
    /\ [](\A p \in Invocations :
            /\ Exhausted(p) =>
                  /\ exitLine[p] = 36
                  /\ settled[p] = outcomes[p][calls[p]].value
                  /\ timer[p] = 0
                  /\ Len(waits[p]) = maxRetries[p]
                  /\ Len(logs[p]) = maxRetries[p]
            /\ (maxRetries[p] >= 0 /\ pc[p] = "sleep") => attempt[p] < maxRetries[p]
            /\ calls[p] <= MathMax(maxRetries[p] + 1, 0))
    /\ [][ExhaustingFailureThrows]_vars

\* C21 witness: maxRetries = 1, the second rate-limit failure was thrown
\* after the one wait that followed the first
C21_Witness ==
    \E p \in Invocations :
        /\ maxRetries[p] = 1
        /\ Exhausted(p)
        /\ Len(waits[p]) = 1
        /\ timer[p] = 0

\* C22: with maxRetries >= 0 the attempt index is the number of waits
\* completed and lies in 0..maxRetries; a terminated invocation has made
\* between 1 and maxRetries + 1 attempts and one wait less than attempts.
C22_AttemptCountsWaits ==
    \A p \in Invocations :
        maxRetries[p] >= 0 =>
            /\ attempt[p] = Len(waits[p])
            /\ attempt[p] \in 0 .. maxRetries[p]
            /\ Terminated(p) =>
                  /\ Len(waits[p]) = calls[p] - 1
                  /\ calls[p] \in 1 .. (maxRetries[p] + 1)
                  /\ Len(outcomes[p]) = calls[p]

\* C22 witness: a success on the third attempt after two waits
C22_Witness ==
    \E p \in Invocations :
        /\ maxRetries[p] = 2
        /\ pc[p] = "return"
        /\ calls[p] = 3 /\ Len(waits[p]) = 2 /\ attempt[p] = 2

\* C23: with maxRetries >= 0 the `throw lastError` after the loop is never
\* reached: a failure is thrown by the catch block of the attempt that
\* raised it, and lastError then holds that same failure.
C23_ThrowAfterLoopUnreachable ==
    \A p \in Invocations :
        maxRetries[p] >= 0 =>
            /\ exitLine[p] # 40
            /\ pc[p] = "loop" => ~ENABLED ThrowAfterLoop(p)
            /\ pc[p] = "throw" =>
                  /\ exitLine[p] = 36
                  /\ FailedCall(p, calls[p])
                  /\ settled[p] = outcomes[p][calls[p]].value
                  /\ settled[p] # Null => settled[p].id = calls[p]
                  /\ lastError[p] = settled[p]

\* C23 witness: maxRetries = 0, the only attempt failed and was thrown from
\* its catch block
C23_Witness ==
    \E p \in Invocations :
        /\ maxRetries[p] = 0
        /\ pc[p] = "throw" /\ exitLine[p] = 36
        /\ calls[p] = 1
        /\ lastError[p] = settled[p] /\ settled[p] # Null

\* C24: with maxRetries < 0 fn is never called, and the invocation fails
\* with the undefined lastError: neither a failure of fn nor a result.
C24_NegativeMaxRetries ==
    \A p \in Invocations :
        maxRetries[p] < 0 =>
            /\ calls[p] = 0 /\ outcomes[p] = <<>>
            /\ waits[p] = <<>> /\ logs[p] = <<>>
            /\ pc[p] \in {"loop", "throw"}
            /\ pc[p] = "loop" => (ENABLED ThrowAfterLoop(p) /\ ~ENABLED CallFn(p))
            /\ pc[p] = "throw" =>
                  /\ exitLine[p] = 40
                  /\ settled[p] = Undefined
                  /\ lastError[p] = Undefined

\* C24 witness: maxRetries = -1, the invocation has thrown undefined
C24_Witness ==
    \E p \in Invocations :
        /\ maxRetries[p] = 0 - 1
        /\ pc[p] = "throw"
        /\ settled[p] = Undefined
        /\ calls[p] = 0

-----------------------------------------------------------------------------
(* Growth of the backoff *)

\* the rate-limit failures of invocation p so far all carry one retryAfter
SameRetryAfter(p) ==
    \A j, k \in 1 .. Len(outcomes[p]) :
        (RateLimitedCall(p, j) /\ RateLimitedCall(p, k)) =>
            Prop(outcomes[p][j].value, "retryAfter")
                = Prop(outcomes[p][k].value, "retryAfter")

\* the exponential term of the wait that follows call k: initialDelay * 2^(k-1)
ExponentialTerm(p, k) == initialDelay[p] * Pow2(k - 1)

\* the server floor of the wait that follows call k, in milliseconds
ServerFloor(p, k) == RetryAfterOf(outcomes[p][k].value).n * 1000

\* successive waits do not decrease, each is the larger of the floor and
\* the exponential term, and the term doubles
WaitsGrow(p) ==
    /\ \A k \in 1 .. Len(logs[p]) :
          IsLargerOf(WaitAfterCall(p, k), ServerFloor(p, k), ExponentialTerm(p, k))
    /\ \A k \in 1 .. (Len(logs[p]) - 1) :
          /\ WaitAfterCall(p, k + 1) >= WaitAfterCall(p, k)
          /\ ServerFloor(p, k + 1) = ServerFloor(p, k)
          /\ ExponentialTerm(p, k + 1) = 2 * ExponentialTerm(p, k)

\* C25 as claimed: with one retryAfter throughout, waits do not decrease,
\* the exponential term doubles, and a wait whose exponential term exceeds
\* the server floor is exactly twice the wait before it.
C25_DoublesOnceTermExceedsFloor ==
    \A p \in Invocations :
        SameRetryAfter(p) =>
            /\ WaitsGrow(p)
            /\ \A k \in 1 .. (Len(logs[p]) - 1) :
                  ExponentialTerm(p, k + 1) > ServerFloor(p, k + 1) =>
                      WaitAfterCall(p, k + 1) = 2 * WaitAfterCall(p, k)

\* C25 amended: with one retryAfter throughout, waits do not decrease, the
\* exponential term doubles, and a wait is exactly twice the wait before it
\* once the exponential term of the wait before it has reached the floor.
C25_BackoffGrows ==
    \A p \in Invocations :
        SameRetryAfter(p) =>
            /\ WaitsGrow(p)
            /\ \A k \in 1 .. (Len(logs[p]) - 1) :
                  ExponentialTerm(p, k) >= ServerFloor(p, k) =>
                      WaitAfterCall(p, k + 1) = 2 * WaitAfterCall(p, k)

\* C25 witness: initialDelay = 3000 and retryAfter = 2 throughout, the waits
\* were 3000 and 6000 ms
C25_Witness ==
    \E p \in Invocations :
        /\ initialDelay[p] = 3000
        /\ Len(outcomes[p]) >= 2
        /\ AllRateLimited(p, 2)
        /\ SameRetryAfter(p)
        /\ Prop(outcomes[p][1].value, "retryAfter") = Num(2)
        /\ waits[p] = <<3000, 6000>>

-----------------------------------------------------------------------------
(* The defaults of maxRetries and initialDelay *)

\* every call of fn by invocation p so far failed with status 429 and no
\* retryAfter
Always429(p) ==
    \A k \in 1 .. Len(outcomes[p]) :
        /\ FailedCall(p, k)
        /\ Prop(outcomes[p][k].value, "statusCode") = Num(429)
        /\ Prop(outcomes[p][k].value, "retryAfter") = Undefined

\* s is an initial part of t
IsPrefix(s, t) == Len(s) <= Len(t) /\ \A k \in 1 .. Len(s) : s[k] = t[k]

\* C26: called without maxRetries and initialDelay, withRateLimit uses 5 and
\* 1000: an operation that always fails with status 429 and no retryAfter is
\* attempted exactly 6 times, with waits of 1000, 2000, 4000, 8000 and
\* 16000 ms between the attempts, and the last failure is then thrown.
C26_DefaultsFiveAndThousand ==
    scriptName \in FeeBumpScripts =>
    \A p \in Invocations :
        /\ maxRetries[p] = 5
        /\ initialDelay[p] = 1000
        /\ Always429(p) =>
              /\ calls[p] <= 6
              /\ IsPrefix(waits[p], <<1000, 2000, 4000, 8000, 16000>>)
              /\ Len(waits[p]) = calls[p] - (IF pc[p] = "loop" THEN 0 ELSE 1)
              /\ pc[p] = "sleep" =>
                    Append(waits[p], timer[p])
                        = SubSeq(<<1000, 2000, 4000, 8000, 16000>>, 1, calls[p])
              /\ pc[p] # "return"
              /\ pc[p] = "throw" =>
                    /\ calls[p] = 6
                    /\ waits[p] = <<1000, 2000, 4000, 8000, 16000>>
                    /\ settled[p] = outcomes[p][6].value
                    /\ settled[p].id = 6

\* C26 witness: six attempts all failed with 429, the sixth failure was thrown
C26_Witness ==
    \E p \in Invocations :
        /\ Always429(p)
        /\ pc[p] = "throw"
        /\ calls[p] = 6
        /\ Len(waits[p]) = 5

-----------------------------------------------------------------------------
(* The withdraw script's balance query, and failures of the API calls *)

\* the number a string of decimal digits denotes
DecimalValue(ds) ==
    LET v[k \in 0 .. Len(ds)] == IF k = 0 THEN 0 ELSE 10 * v[k - 1] + ds[k]
    IN v[Len(ds)]

\* C27: the withdraw script requests withdrawShares only after its
\* getVaultBalance query has returned, and the shares it requests are the
\* integer parse of the first element of the balance response's dfTokens.
C27_BalanceBeforeWithdraw ==
    scriptName = "withdraw" =>
    /\ \A i \in RequestsOf("withdrawShares") :
          /\ \E j \in 1 .. (i - 1) : apiLog[j].method = "getVaultBalance"
          /\ main.balanceResponse # Undefined
          /\ pc[1] = "return" /\ settled[1] = main.balanceResponse
          /\ apiLog[i].shares = DecimalValue(main.balanceResponse.dfTokens[1])
          /\ \A j \in RequestsOf("getVaultBalance") : j < i
    /\ main.balanceResponse = Undefined =>
          \A i \in 1 .. Len(apiLog) : apiLog[i].method = "getVaultBalance"
    /\ Len(apiLog) >= 1 => apiLog[1].method = "getVaultBalance"

\* C27 witness: the balance response had dfTokens 120 and 7, and 120 shares
\* were requested
C27_Witness ==
    /\ scriptName = "withdraw"
    /\ main.balanceResponse # Undefined
    /\ main.balanceResponse.dfTokens = <<(<<1, 2, 0>>), (<<7>>)>>
    /\ \E i \in RequestsOf("withdrawShares") : apiLog[i].shares = 120

\* the steps main() of a fee-bump script awaits withRateLimit in
AwaitedSteps(script) == IF script = "withdraw" THEN 3 ELSE 2

\* once main() has failed nothing changes any more
FailedIsFinal == main.step = "failed" => vars' = vars

\* C28: in a fee-bump script a withRateLimit call that fails ends the flow:
\* no activation is started after one that threw, sendTransaction is
\* requested only when every earlier call returned, and a failed submission
\* is requested at most maxRetries + 1 times.
C28_FailureEndsFlow ==
    /\ [](scriptName \in FeeBumpScripts =>
            /\ \A p \in Invocations :
                  pc[p] = "throw" =>
                      /\ p = Cardinality(Invocations)
                      /\ main.step = "failed" \/ main.awaiting = p
            /\ Cardinality(Invocations) <= AwaitedSteps(scriptName)
            /\ RequestsOf("sendTransaction") # {} =>
                  /\ Cardinality(Invocations) = AwaitedSteps(scriptName)
                  /\ \A p \in 1 .. (AwaitedSteps(scriptName) - 1) : pc[p] = "return"
                  /\ main.transaction # Undefined
            /\ Cardinality(RequestsOf("sendTransaction")) <= DefaultMaxRetries + 1
            /\ main.step = "failed" =>
                  /\ main.awaiting = 0
                  /\ pc[Cardinality(Invocations)] = "throw"
                  /\ printed = ""
                  /\ main.transaction = Undefined =>
                        RequestsOf("sendTransaction") = {})
    /\ [][FailedIsFinal]_vars

\* C28 witness: the request for the unsigned transaction was rejected with a
\* non-retryable failure; main() failed without a sendTransaction
C28_Witness ==
    /\ scriptName = "deposit"
    /\ main.step = "failed"
    /\ Cardinality(Invocations) = 1
    /\ pc[1] = "throw" /\ calls[1] = 1
    /\ RequestsOf("sendTransaction") = {}

-----------------------------------------------------------------------------
(* The .NET example: Example.Main polls the status of the submitted
   transaction *)

\* polls explored (the loop itself has no counter)
MaxPolls == 3

\* var timeout = 50
PollTimeout == 50

\* checkedTx.Status.ToString() of a response
StatusInputs == {"NOT_FOUND", "PENDING", "SUCCESS", "FAILED", "ERROR"}

\* what sorobanServer.GetTransaction may answer
GetTransactionResponses ==
    {[Status |-> st, ResultValue |-> rv] :
        st \in StatusInputs, rv \in {Null, Str("resultValue")}}

\* main.step names the statement Main is at; main.responses are the answers
\* received so far, main.checkedTx the variable of that name
PollInit ==
    /\ InitOn({})
    /\ scriptName = "Example"
    /\ envNETWORK = Undefined
    /\ main = [step |-> "poll", checkedTx |-> Null, responses |-> <<>>,
               polls |-> 0, delay |-> 0, exception |-> ""]
    /\ apiLog = <<>>
    /\ printed = ""

\* checkedTx = await sorobanServer.GetTransaction(submittedTx.Hash): the call
GetTransaction ==
    /\ scriptName = "Example"
    /\ main.step = "poll"
    /\ main.polls < MaxPolls
    /\ apiLog' = Append(apiLog, [method |-> "GetTransaction", hash |-> "submittedTx.Hash"])
    /\ main' = [main EXCEPT !.step = "getTransaction", !.polls = @ + 1]
    /\ UNCHANGED <<scriptName, envNETWORK, printed>>
    /\ UNCHANGED rateLimitVars

\* slip: only FAILED is tested, ERROR falls to the else branch
GetTransactionReturns_ErrorIgnored(r) ==
    /\ scriptName = "Example"
    /\ main.step = "getTransaction"
    /\ main' = [main EXCEPT
                  !.checkedTx = r,
                  !.responses = Append(@, r),
                  !.step = IF r.Status = "FAILED" THEN "thrown"
                           ELSE IF r.Status = "SUCCESS"
                           THEN (IF r.ResultValue = Null THEN "thrown" ELSE "parse")
                           ELSE "delay",
                  !.exception = IF r.Status = "FAILED" THEN "Transaction failed."
                                ELSE IF r.Status = "SUCCESS" /\ r.ResultValue = Null
                                THEN "Transaction result value is null."
                                ELSE "",
                  !.delay = IF r.Status \in {"FAILED", "SUCCESS"} THEN 0 ELSE PollTimeout]
    /\ UNCHANGED <<scriptName, envNETWORK, apiLog, printed>>
    /\ UNCHANGED rateLimitVars

\* the answer arrives and the if / else if / else of lines 158-180 runs
GetTransactionReturns(r) ==
    /\ scriptName = "Example"
    /\ main.step = "getTransaction"
    /\ main' = [main EXCEPT
                  !.checkedTx = r,
                  !.responses = Append(@, r),
                  !.step = IF r.Status = "FAILED" \/ r.Status = "ERROR" THEN "thrown"
                           ELSE IF r.Status = "SUCCESS"
                           THEN (IF r.ResultValue = Null THEN "thrown" ELSE "parse")
                           ELSE "delay",
                  !.exception = IF r.Status = "FAILED" \/ r.Status = "ERROR"
                                THEN "Transaction failed."
                                ELSE IF r.Status = "SUCCESS" /\ r.ResultValue = Null
                                THEN "Transaction result value is null."
                                ELSE "",
                  !.delay = IF r.Status \in {"FAILED", "ERROR", "SUCCESS"}
                            THEN 0 ELSE PollTimeout]
    /\ UNCHANGED <<scriptName, envNETWORK, apiLog, printed>>
    /\ UNCHANGED rateLimitVars

\* await Task.Delay(timeout) completes: the while (true) loop runs again
TaskDelayElapses ==
    /\ scriptName = "Example"
    /\ main.step = "delay"
    /\ main' = [main EXCEPT !.step = "poll", !.delay = 0]
    /\ UNCHANGED <<scriptName, envNETWORK, apiLog, printed>>
    /\ UNCHANGED rateLimitVars

PollNext ==
    \/ GetTransaction
    \/ \E r \in GetTransactionResponses : GetTransactionReturns(r)
    \/ TaskDelayElapses

PollSpec == PollInit /\ [][PollNext]_vars

\* the statuses that end the polling
TerminalStatuses == {"SUCCESS", "FAILED", "ERROR"}

\* the status of the latest answer
LastStatus == main.responses[Len(main.responses)].Status

====
